---------------------------- MODULE Spec2Model ----------------------------
(* Model of app.py: the OAuth credential lifecycle of                      *)
(* get_google_drive_credentials, upload_to_google_drive,                   *)
(* process_audio_with_gemini and the two front-ends cli_process_audio and  *)
(* create_gradio_interface.process_audio.                                  *)
(*                                                                         *)
(* Python's None is the empty sequence <<>>, a present value v is <<v>>.   *)
(* A text is the sequence of its lines (text.split("\n")), so the empty    *)
(* string is << "" >>.                                                     *)
EXTENDS Integers, Sequences, FiniteSets, TLC

VARIABLES
    now,                 \* the clock read by Credentials.expired
    tokenFile,           \* contents of token.json
    pc,                  \* position of the running process
    mode,                \* interface_type: "cli", "web" or another answer
    DRIVE_FOLDER_ID,     \* TRUE iff GOOGLE_DRIVE_FOLDER_ID is set
    creds,               \* local variable creds of get_google_drive_credentials
    authResult,          \* value returned by get_google_drive_credentials
    drive_file_id,       \* value returned by upload_to_google_drive
    response,            \* result.text as the generative service produced it
    gemini_description,  \* value returned by process_audio_with_gemini
    output,              \* what the front-end showed: printed lines or returned value
    hist,                \* history of the current run (calls made, starting file)
    prev                 \* the latest return of get_google_drive_credentials, kept
                         \* while the clock stands and if it started from a valid token

vars == <<now, tokenFile, pc, mode, DRIVE_FOLDER_ID, creds, authResult,
          drive_file_id, response, gemini_description, output, hist, prev>>

-----------------------------------------------------------------------------
(* Bounds *)
MaxTime == 2
MaxToken == 2
MaxLines == 2

None == <<>>
Some(v) == <<v>>

Tokens == 1..MaxToken
\* expiry 0 is "no expiry"; otherwise a time
Expiries == 0..(MaxTime + 1)

LineSet == {"", " ", "Q", "A"}
\* responses of the generative service: every text of up to MaxLines lines,
\* and two longer ones with a blank line inside and with an odd line at the end
LongTexts == {<<"Q", "", "A">>, <<"Q", "A", "Q">>, <<"Q", "A", " ", "Q", "A">>}
Texts == UNION {[1..n -> LineSet] : n \in 1..MaxLines} \cup LongTexts
FileIds == {"id1"}

-----------------------------------------------------------------------------
(* Credentials (google.oauth2.credentials.Credentials as the code uses it) *)

\* creds.expired
expired(c) == c.expiry # 0 /\ now >= c.expiry

\* creds.valid
valid(c) == c.token # 0 /\ ~expired(c)

\* `creds and creds.expired and creds.refresh_token`
refreshable(oc) == oc # None /\ expired(oc[1]) /\ oc[1].refresh_token

\* the validity test of line 55 left out: the OAuth flow always runs
needs_oauth_always(oc) == TRUE

\* `not creds or not creds.valid`
needs_oauth(oc) == oc = None \/ ~valid(oc[1])

-----------------------------------------------------------------------------
(* The token file *)

FileAbsent  == [st |-> "absent",  token |-> 0, expiry |-> 0, refresh_token |-> FALSE]
FileEmpty   == [st |-> "empty",   token |-> 0, expiry |-> 0, refresh_token |-> FALSE]
FilePartial == [st |-> "partial", token |-> 0, expiry |-> 0, refresh_token |-> FALSE]
FileGarbage == [st |-> "garbage", token |-> 0, expiry |-> 0, refresh_token |-> FALSE]

\* creds.to_json()
to_json(c) ==
    [st |-> "json", token |-> c.token, expiry |-> c.expiry,
     refresh_token |-> c.refresh_token]

\* os.path.exists(token_path)
exists(f) == f.st # "absent"

\* Credentials.from_authorized_user_file raises on content that is not a
\* complete serialized credential
parsable(f) == f.st = "json"

\* Credentials.from_authorized_user_file(token_path, SCOPES)
from_authorized_user_file(f) ==
    [token |-> f.token, expiry |-> f.expiry, refresh_token |-> f.refresh_token]

\* the file is opened for writing but the credential is never written
token_write_nothing(c) == FileEmpty

\* what token.write(creds.to_json()) leaves in the file when it completes
token_write(c) == to_json(c)

JsonFiles ==
    {[st |-> "json", token |-> t, expiry |-> e, refresh_token |-> r] :
        t \in 0..MaxToken, e \in Expiries, r \in BOOLEAN}

\* credentials the authorization server can hand out at the current time:
\* a token with no expiry, a future expiry, or an expiry already reached
Granted(rt) ==
    {[token |-> t, expiry |-> e, refresh_token |-> r] :
        t \in Tokens, e \in {0, now, now + 1}, r \in rt}

-----------------------------------------------------------------------------
(* Front-end output *)

Msg(k, d, i) == [kind |-> k, desc |-> d, id |-> i]

\* print(f"File uploaded to Google Drive with ID: {drive_file_id}")
cli_upload_msg(id) == Msg("uploaded_with_id", None, id)

\* lines 157-161 of cli_process_audio
cli_description_msg(d) ==
    IF d # None /\ d[1] # << "" >>
    THEN Msg("description", d, None)
    ELSE Msg("failed", None, None)

\* return f"Gemini Description:\n{...}\n\nGoogle Drive File ID: {...}"
web_with_id_msg(d, id) == Msg("description_and_id", d, id)

\* return gemini_description
web_plain_msg(d) == Msg("returned_value", d, None)

-----------------------------------------------------------------------------
(* Exception handlers *)

\* lines 84-86: any exception inside get_google_drive_credentials
credentials_except == "upload"

\* upload_to_google_drive without its try/except
upload_except_raises == "raise"

\* lines 114-116: any exception inside upload_to_google_drive
upload_except == "continue"

\* lines 134-136: any exception inside process_audio_with_gemini
gemini_except == "continue"

RECURSIVE non_empty_lines(_)
\* the lines of t that are not empty after trimming, in order
non_empty_lines(t) ==
    IF t = <<>> THEN <<>>
    ELSE IF Head(t) \in {"", " "}
         THEN non_empty_lines(Tail(t))
         ELSE <<Head(t)>> \o non_empty_lines(Tail(t))

\* line 132: return result.text
gemini_return(t) == t

\* lines 65-70: the step that follows a refresh that raised
after_refresh_error == "consent"

-----------------------------------------------------------------------------
Hist0 ==
    [file0 |-> FileAbsent, loaded |-> None, refreshCalls |-> 0,
     consentCalls |-> 0, saveCalls |-> 0, refreshRaised |-> FALSE, saveOk |-> FALSE,
     refreshOk |-> FALSE, consentOk |-> FALSE, obtained |-> None,
     startValid |-> FALSE, authCalled |-> FALSE, uploadCalled |-> FALSE, genCalled |-> FALSE,
     genFailed |-> FALSE, uploadFailed |-> FALSE]

Prev0 == [has |-> FALSE, result |-> None, file |-> FileAbsent]

Init ==
    /\ now = 1
    /\ tokenFile \in {FileAbsent, FileGarbage} \cup JsonFiles
    /\ pc = "idle"
    /\ mode = "cli"
    /\ DRIVE_FOLDER_ID = FALSE
    /\ creds = None
    /\ authResult = None
    /\ drive_file_id = None
    /\ response = None
    /\ gemini_description = None
    /\ output = <<>>
    /\ hist = Hist0
    /\ prev = Prev0

-----------------------------------------------------------------------------
(* main / cli_process_audio / process_audio: entry *)

\* upload_to_google_drive is entered: line 94 calls get_google_drive_credentials
EnterUpload(h) == [h EXCEPT !.uploadCalled = TRUE, !.authCalled = TRUE]

\* the answers to "Choose interface type (cli/web): ", lowercased (line 196):
\* the two front-ends, and any other answer
InterfaceTypes == {"cli", "web", "other"}

\* lines 204-206: print("Invalid interface type. Please choose 'cli' or 'web'.")
invalid_interface_msg == Msg("invalid_interface", None, None)

\* main(): lines 194-206, up to the first external call of the chosen
\* front-end; any answer other than cli and web prints the invalid-interface
\* line and ends the run without a call
Start(m, f) ==
    /\ pc = "idle"
    /\ mode' = m
    /\ DRIVE_FOLDER_ID' = f
    /\ IF m = "cli"
       THEN IF f
            THEN /\ pc' = "auth"
                 /\ hist' = EnterUpload([Hist0 EXCEPT !.file0 = tokenFile])
                 /\ UNCHANGED output
            ELSE /\ pc' = "gen"
                 /\ hist' = [Hist0 EXCEPT !.file0 = tokenFile]
                 /\ UNCHANGED output
       ELSE IF m = "web"
            THEN /\ pc' = "gen"
                 /\ hist' = [Hist0 EXCEPT !.file0 = tokenFile]
                 /\ UNCHANGED output
            ELSE /\ pc' = "done"
                 /\ hist' = [Hist0 EXCEPT !.file0 = tokenFile]
                 /\ output' = <<invalid_interface_msg>>
    /\ UNCHANGED <<now, tokenFile, creds, authResult, drive_file_id, response,
                   gemini_description, prev>>

-----------------------------------------------------------------------------
(* get_google_drive_credentials *)

\* return from get_google_drive_credentials with value r
AuthReturn(r, next) ==
    /\ authResult' = r
    /\ pc' = next

\* lines 48-59: load the token file and choose the branch
AuthLoad ==
    /\ pc = "auth"
    /\ IF exists(tokenFile) /\ ~parsable(tokenFile)
       THEN \* from_authorized_user_file raises: lines 84-86
            /\ AuthReturn(None, credentials_except)
            /\ UNCHANGED <<creds, hist>>
       ELSE LET oc == IF exists(tokenFile)
                      THEN Some(from_authorized_user_file(tokenFile))
                      ELSE None
                h  == [hist EXCEPT !.loaded = oc,
                                   !.startValid = ~needs_oauth(oc)]
            IN  /\ creds' = oc
                /\ hist' = h
                /\ IF ~needs_oauth(oc)
                   THEN AuthReturn(oc, "upload")
                   ELSE /\ pc' = IF refreshable(oc) THEN "refresh" ELSE "consent"
                        /\ UNCHANGED authResult
    /\ UNCHANGED <<now, tokenFile, mode, DRIVE_FOLDER_ID, drive_file_id, response,
                   gemini_description, output, prev>>

\* lines 61-66: creds.refresh(request) returns with a new token and expiry,
\* or raises
AuthRefresh ==
    /\ pc = "refresh"
    /\ \/ \E g \in Granted({TRUE}) :
            /\ creds' = Some(g)
            /\ hist' = [hist EXCEPT !.refreshCalls = @ + 1, !.refreshOk = TRUE,
                                    !.obtained = Some(g)]
            /\ pc' = "save_open"
            /\ UNCHANGED authResult
       \/ /\ hist' = [hist EXCEPT !.refreshCalls = @ + 1, !.refreshRaised = TRUE]
          /\ IF after_refresh_error = "consent"
             THEN pc' = "consent" /\ UNCHANGED authResult
             ELSE AuthReturn(None, credentials_except)
          /\ UNCHANGED creds
    /\ UNCHANGED <<now, tokenFile, mode, DRIVE_FOLDER_ID, drive_file_id,
                   response, gemini_description, output, prev>>

\* lines 68-70 and 73-75: InstalledAppFlow.from_client_secrets_file and
\* flow.run_local_server return a credential, or raise
AuthConsent ==
    /\ pc = "consent"
    /\ \/ \E g \in Granted(BOOLEAN) :
            /\ creds' = Some(g)
            /\ hist' = [hist EXCEPT !.consentCalls = @ + 1, !.consentOk = TRUE,
                                    !.obtained = Some(g)]
            /\ pc' = "save_open"
            /\ UNCHANGED authResult
       \/ /\ hist' = [hist EXCEPT !.consentCalls = @ + 1]
          /\ AuthReturn(None, credentials_except)
          /\ UNCHANGED creds
    /\ UNCHANGED <<now, tokenFile, mode, DRIVE_FOLDER_ID, drive_file_id,
                   response, gemini_description, output, prev>>

\* line 78: open(token_path, 'w') truncates the file, or raises
AuthSaveOpen ==
    /\ pc = "save_open"
    /\ hist' = [hist EXCEPT !.saveCalls = @ + 1]
    /\ \/ /\ tokenFile' = FileEmpty
          /\ pc' = "save_write"
          /\ UNCHANGED authResult
       \/ /\ AuthReturn(None, credentials_except)
          /\ UNCHANGED tokenFile
    /\ UNCHANGED <<now, mode, DRIVE_FOLDER_ID, creds, drive_file_id, response,
                   gemini_description, output, prev>>

\* lines 79-82: token.write(creds.to_json()) completes and creds is returned,
\* or the write raises with nothing or only part of the text on disk
AuthSaveWrite ==
    /\ pc = "save_write"
    /\ \/ /\ tokenFile' = token_write(creds[1])
          /\ hist' = [hist EXCEPT !.saveOk = TRUE]
          /\ AuthReturn(creds, "upload")
       \/ /\ tokenFile' \in {FileEmpty, FilePartial}
          /\ AuthReturn(None, credentials_except)
          /\ UNCHANGED hist
    /\ UNCHANGED <<now, mode, DRIVE_FOLDER_ID, creds, drive_file_id, response,
                   gemini_description, output, prev>>

\* the process dies between open(token_path, 'w') and the end of the write
Crash ==
    /\ pc = "save_write"
    /\ pc' = "idle"
    /\ mode' = "cli"
    /\ DRIVE_FOLDER_ID' = FALSE
    /\ creds' = None
    /\ authResult' = None
    /\ drive_file_id' = None
    /\ response' = None
    /\ gemini_description' = None
    /\ output' = <<>>
    /\ hist' = Hist0
    /\ UNCHANGED <<now, tokenFile, prev>>

-----------------------------------------------------------------------------
(* upload_to_google_drive, from line 96 on, and the caller's next lines *)

ErrorMsg == Msg("error", None, None)

\* lines 151-152 (cli) and 175-176 (web): what the caller does with the id
AfterUpload(id) ==
    IF mode = "cli"
    THEN /\ output' = Append(output, cli_upload_msg(id))
         /\ pc' = "gen"
    ELSE /\ output' = <<web_with_id_msg(gemini_description, id)>>
         /\ pc' = "done"

\* an exception leaves the front-end: the cli has no handler, process_audio
\* has lines 179-181
Propagate ==
    IF mode = "cli"
    THEN /\ pc' = "aborted"
         /\ UNCHANGED output
    ELSE /\ output' = <<ErrorMsg>>
         /\ pc' = "done"

Upload ==
    /\ pc = "upload"
    /\ prev' = IF hist.startValid
               THEN [has |-> TRUE, result |-> authResult, file |-> tokenFile]
               ELSE Prev0
    /\ IF authResult = None
       THEN \* lines 96-98
            /\ drive_file_id' = None
            /\ hist' = [hist EXCEPT !.uploadFailed = TRUE]
            /\ AfterUpload(None)
       ELSE \/ \E id \in FileIds :   \* lines 101-113
                 /\ drive_file_id' = Some(id)
                 /\ UNCHANGED hist
                 /\ AfterUpload(Some(id))
            \/ \* build, MediaFileUpload or execute raises
               /\ drive_file_id' = None
               /\ hist' = [hist EXCEPT !.uploadFailed = TRUE]
               /\ IF upload_except = "continue"
                  THEN AfterUpload(None)
                  ELSE Propagate
    /\ UNCHANGED <<now, tokenFile, mode, DRIVE_FOLDER_ID, creds, authResult,
                   response, gemini_description>>

-----------------------------------------------------------------------------
(* process_audio_with_gemini and the caller's next lines *)

\* lines 157-161 (cli) and 173-178 (web): what the caller does with the text
AfterGemini(d, h) ==
    IF mode = "cli"
    THEN /\ output' = Append(output, cli_description_msg(d))
         /\ pc' = "done"
         /\ hist' = h
    ELSE IF DRIVE_FOLDER_ID
         THEN /\ pc' = "auth"
              /\ hist' = EnterUpload(h)
              /\ UNCHANGED output
         ELSE /\ output' = <<web_plain_msg(d)>>
              /\ pc' = "done"
              /\ hist' = h

Gemini ==
    /\ pc = "gen"
    /\ \/ \E t \in Texts :   \* lines 124-132
            /\ response' = Some(t)
            /\ gemini_description' = Some(gemini_return(t))
            /\ AfterGemini(Some(gemini_return(t)), [hist EXCEPT !.genCalled = TRUE])
       \/ \* upload_file, generate_content or result.text raises
          /\ response' = None
          /\ gemini_description' = None
          /\ IF gemini_except = "continue"
             THEN AfterGemini(None, [hist EXCEPT !.genCalled = TRUE, !.genFailed = TRUE])
             ELSE /\ Propagate
                  /\ hist' = [hist EXCEPT !.genCalled = TRUE, !.genFailed = TRUE]
    /\ UNCHANGED <<now, tokenFile, mode, DRIVE_FOLDER_ID, creds, authResult,
                   drive_file_id, prev>>

-----------------------------------------------------------------------------
\* the process ends; the next invocation starts from the token file it left
Finish ==
    /\ pc \in {"done", "aborted"}
    /\ pc' = "idle"
    /\ mode' = "cli"
    /\ DRIVE_FOLDER_ID' = FALSE
    /\ creds' = None
    /\ authResult' = None
    /\ drive_file_id' = None
    /\ response' = None
    /\ gemini_description' = None
    /\ output' = <<>>
    /\ hist' = Hist0
    /\ UNCHANGED <<now, tokenFile, prev>>

\* time passes between invocations
Tick ==
    /\ pc = "idle"
    /\ now < MaxTime
    /\ now' = now + 1
    /\ prev' = Prev0
    /\ UNCHANGED <<tokenFile, pc, mode, DRIVE_FOLDER_ID, creds, authResult,
                   drive_file_id, response, gemini_description, output, hist>>

Next ==
    \/ \E m \in InterfaceTypes, f \in BOOLEAN : Start(m, f)
    \/ AuthLoad
    \/ AuthRefresh
    \/ AuthConsent
    \/ AuthSaveOpen
    \/ AuthSaveWrite
    \/ Crash
    \/ Upload
    \/ Gemini
    \/ Finish
    \/ Tick

Spec == Init /\ [][Next]_vars

-----------------------------------------------------------------------------
(* Properties *)

\* get_google_drive_credentials has just returned authResult
AuthReturned == pc = "upload"

\* the token file the call started from held a credential that was valid
StartedValid ==
    parsable(hist.file0) /\ valid(from_authorized_user_file(hist.file0))

\* C1: whatever the token file held and whatever refresh and consent did,
\* get_google_drive_credentials returns a credential that is valid at the
\* moment of return, or reports failure (None).
C1_ReturnsValidOrFails ==
    (AuthReturned /\ authResult # None) => valid(authResult[1])

\* C2: a credential obtained during the call (by refresh or by consent) is
\* returned only after it was written to the token file: at the return the
\* file holds exactly the serialization of the returned credential.
C2_SavedBeforeReturn ==
    (AuthReturned /\ authResult # None /\ hist.obtained # None) =>
        /\ authResult = hist.obtained
        /\ hist.saveCalls = 1
        /\ hist.saveOk
        /\ tokenFile = to_json(authResult[1])

C2_Witness ==
    /\ AuthReturned
    /\ authResult # None
    /\ hist.refreshOk
    /\ valid(authResult[1])
    /\ tokenFile # hist.file0

\* C3: from a valid persisted credential the call returns that credential
\* unchanged, makes no refresh, no consent and no save, leaves the token file
\* as it was, and a second call in succession returns the same credential
\* with the same file.
C3_ValidIsNoop ==
    (AuthReturned /\ StartedValid) =>
        /\ authResult = Some(from_authorized_user_file(hist.file0))
        /\ hist.refreshCalls = 0
        /\ hist.consentCalls = 0
        /\ hist.saveCalls = 0
        /\ tokenFile = hist.file0
        /\ (prev.has => (authResult = prev.result /\ tokenFile = prev.file))

C3_Witness ==
    /\ AuthReturned
    /\ StartedValid
    /\ prev.has
    /\ authResult # None

\* C4: when the refresh of an expired credential raises, the consent flow is
\* run (once) instead of failing, and when the consent flow succeeds its
\* credential is returned and has been persisted to the token file exactly
\* once during the call.
C4_RefreshErrorFallsBack ==
    (AuthReturned /\ hist.refreshRaised) =>
        /\ hist.refreshCalls = 1
        /\ hist.consentCalls = 1
        /\ (hist.consentOk =>
              /\ hist.saveCalls = 1
              /\ authResult = hist.obtained
              /\ tokenFile = to_json(hist.obtained[1]))

\* C5: a token file that exists but cannot be parsed is treated as absent:
\* the call goes on to the consent flow, and returns its credential when the
\* consent and the save succeed.
C5_UnparsableTreatedAsAbsent ==
    (AuthReturned /\ exists(hist.file0) /\ ~parsable(hist.file0)) =>
        hist.consentCalls = 1

\* C6: once a save has begun, the token file holds the complete previous
\* content or the complete new credential, at every point.
C6_SaveAtomic ==
    (hist.saveCalls > 0) =>
        tokenFile \in {hist.file0, to_json(hist.obtained[1])}

\* C7: nothing shown to the user puts an absent value (None) in a message
\* other than the plain failure messages.
NoAbsentPart(m) ==
    CASE m.kind = "uploaded_with_id"   -> m.id # None
      [] m.kind = "description"        -> m.desc # None
      [] m.kind = "description_and_id" -> m.desc # None /\ m.id # None
      [] m.kind = "returned_value"     -> m.desc # None
      [] OTHER                         -> TRUE

C7_AbsenceShownAsFailure ==
    \A i \in 1..Len(output) : NoAbsentPart(output[i])

\* C8: no exception of the upload branch or of the generation branch leaves
\* the front-end or ends it early: every finished run of cli_process_audio
\* and of the web handler has attempted the generation, has attempted the upload when a folder id is configured, the
\* web handler still delivers the generated text when the upload failed, and
\* the cli still reports the generation after a failed upload.
C8_BranchesIndependent ==
    /\ pc # "aborted"
    /\ \A i \in 1..Len(output) : output[i].kind # "error"
    /\ ((pc = "done" /\ mode \in {"cli", "web"}) =>
          /\ hist.genCalled
          /\ (DRIVE_FOLDER_ID => hist.uploadCalled)
          /\ (hist.uploadFailed => drive_file_id = None)
          /\ (hist.genFailed => gemini_description = None)
          /\ output # <<>>
          /\ ((mode = "web" /\ DRIVE_FOLDER_ID) =>
                output[Len(output)].desc = gemini_description)
          /\ (mode = "cli" =>
                output[Len(output)] = cli_description_msg(gemini_description)))

C8_Witness ==
    /\ pc = "done"
    /\ hist.uploadFailed
    /\ hist.authCalled
    /\ authResult # None
    /\ hist.genCalled
    /\ ~hist.genFailed

\* C9: when the refresh of an expired credential with a refresh token
\* returns, the call succeeds and the consent flow is not run; the consent
\* flow runs only when no credential was loaded, the loaded one could not be
\* refreshed, or the refresh raised.
C9_RefreshOkSucceedsWithoutConsent ==
    /\ (AuthReturned /\ hist.refreshOk) =>
          (authResult # None /\ hist.consentCalls = 0)
    /\ (hist.consentCalls > 0) =>
          (hist.loaded = None \/ ~refreshable(hist.loaded) \/ hist.refreshRaised)

\* the QuizItems a run has shown: the entries of output that are question/
\* answer records
QuizItemsShown == SelectSeq(output, LAMBDA m : m.kind = "quiz_item")

\* C10: a finished run of a front-end whose generation returned a text with N
\* lines that are not empty after trimming has emitted exactly floor(N/2)
\* QuizItems (the lines taken in pairs, a trailing unpaired line dropped).
C10_QuizItemsEmitted ==
    (pc = "done" /\ mode \in {"cli", "web"} /\ response # None) =>
        Len(QuizItemsShown) = Len(non_empty_lines(response[1])) \div 2

=============================================================================
